---- MODULE Spec2Model ----
(***************************************************************************)
(* A model of scripts/process_results.py: the post-processor of a         *)
(* ScanCode.io scan.  Python dicts are functions whose DOMAIN is the set   *)
(* of keys present, lists are sequences, strings are strings.             *)
(***************************************************************************)
EXTENDS Integers, Sequences, FiniteSets, TLC

VARIABLES
  pc,               \* position in main() (or in the harness of one function)
  args,             \* the parsed command line (parse_arguments)
  fs,               \* the directory of the results file: name -> file
  policy_file,      \* what is on disk at args.policy
  results_file,     \* the name main() selected
  scan_results,     \* the loaded scan document
  policy,           \* the loaded policy, or None
  license_result,   \* <<license_check_passed, license_violations>>
  vuln_result,      \* <<vuln_check_passed, vuln_violations>>
  summary,          \* the content written to scan-summary.json
  exit_code,        \* the status given to sys.exit, -1 while running
  log,              \* the steps main() has taken, in order
  policy_passed,    \* main()'s policy_passed, set where the exit code is decided
  fs0,              \* the directory as it was when the run started
  runs              \* calls of enhance_spdx_sbom made on the SPDX file

vars == <<pc, args, fs, policy_file, results_file, scan_results, policy,
          license_result, vuln_result, summary, exit_code, log, policy_passed,
          fs0, runs>>

-----------------------------------------------------------------------------
(* Bounds of the model *)

MaxFiles == 2
MaxVulns == 2
MaxPackages == 2
MaxRuns == 2

-----------------------------------------------------------------------------
(* Python values *)

\* Python's None: a value that is no dict of the program (it has no program key)
None == [None |-> TRUE]

\* "not v" for a value that is a dict or None: None and the empty dict are falsy
Falsy(v) == v = None \/ DOMAIN v = {}

\* dict.get(key, default)
Get(d, k, default) == IF k \in DOMAIN d THEN d[k] ELSE default

\* a dict restricted to some of its keys (models a document that omits fields)
Restrict(d, K) == [k \in K |-> d[k]]

UpperChars == "ABCDEFGHIJKLMNOPQRSTUVWXYZ"
LowerChars == "abcdefghijklmnopqrstuvwxyz"

\* the characters that occur in file names, in ASCII order
AsciiChars == "-.0123456789abcdefghijklmnopqrstuvwxyz"

CharAt(s, i) == SubSeq(s, i, i)

IndexIn(alphabet, c) ==
  IF \E i \in 1..Len(alphabet) : CharAt(alphabet, i) = c
  THEN CHOOSE i \in 1..Len(alphabet) : CharAt(alphabet, i) = c
  ELSE 0

LowerChar(c) ==
  IF IndexIn(UpperChars, c) = 0 THEN c ELSE CharAt(LowerChars, IndexIn(UpperChars, c))

\* str.lower()
RECURSIVE Lower(_)
Lower(s) == IF s = "" THEN "" ELSE LowerChar(CharAt(s, 1)) \o Lower(SubSeq(s, 2, Len(s)))

UpperChar(c) ==
  IF IndexIn(LowerChars, c) = 0 THEN c ELSE CharAt(UpperChars, IndexIn(LowerChars, c))

\* str.upper()
RECURSIVE Upper(_)
Upper(s) == IF s = "" THEN "" ELSE UpperChar(CharAt(s, 1)) \o Upper(SubSeq(s, 2, Len(s)))

\* str.startswith / str.endswith
StartsWith(s, p) == Len(s) >= Len(p) /\ SubSeq(s, 1, Len(p)) = p
EndsWith(s, p) == Len(s) >= Len(p) /\ SubSeq(s, Len(s) - Len(p) + 1, Len(s)) = p

\* a < b in Python's string order
RECURSIVE StrLess(_, _)
StrLess(a, b) ==
  IF b = "" THEN FALSE
  ELSE IF a = "" THEN TRUE
  ELSE IF CharAt(a, 1) = CharAt(b, 1)
       THEN StrLess(SubSeq(a, 2, Len(a)), SubSeq(b, 2, Len(b)))
       ELSE IndexIn(AsciiChars, CharAt(a, 1)) < IndexIn(AsciiChars, CharAt(b, 1))

\* sorted(names)[-1]
SortedLast(names) == CHOOSE m \in names : \A n \in names : n = m \/ StrLess(n, m)

\* x in list
InList(x, list) == \E i \in 1..Len(list) : list[i] = x

\* the sequences over S of length at most n
SeqsUpTo(S, n) == UNION {[1..k -> S] : k \in 0..n}

RECURSIVE Flatten(_)
Flatten(ss) == IF ss = <<>> THEN <<>> ELSE Head(ss) \o Flatten(Tail(ss))

-----------------------------------------------------------------------------
(* extract_resources, extract_vulnerabilities *)

extract_resources(scan) ==
  [packages     |-> Get(scan, "packages", <<>>),
   dependencies |-> Get(scan, "dependencies", <<>>),
   files        |-> Get(scan, "files", <<>>)]

extract_vulnerabilities(scan) ==
  IF "extra_data" \in DOMAIN scan /\ "vulnerabilities" \in DOMAIN scan["extra_data"]
  THEN scan["extra_data"]["vulnerabilities"]
  ELSE <<>>

-----------------------------------------------------------------------------
(* check_license_policy *)

\* the low_clarity_score violations of one match of one detection
MatchViolations(match, license_key, path, min_clarity_score) ==
  LET score == Get(match, "score", 0) IN
  IF score < min_clarity_score
  THEN << [type |-> "low_clarity_score", license |-> license_key, score |-> score,
           file_path |-> path,
           message |-> <<"License", license_key, "has clarity score", score,
                         "which is below minimum", min_clarity_score>>] >>
  ELSE <<>>

DetectionViolations(detection, license_key, path, min_clarity_score) ==
  IF "matches" \in DOMAIN detection /\ detection["matches"] # <<>>
  THEN Flatten([i \in 1..Len(detection["matches"]) |->
                 MatchViolations(detection["matches"][i], license_key, path,
                                 min_clarity_score)])
  ELSE <<>>

\* license_key in prohibited_licenses
IsProhibited_FirstOnly(license_key, prohibited_licenses) ==
  prohibited_licenses # <<>> /\ prohibited_licenses[1] = license_key

IsProhibited(license_key, prohibited_licenses) ==
  InList(license_key, prohibited_licenses)

\* the violations one file record contributes (one iteration of the loop over files)
FileViolations(resource, allowed_licenses, prohibited_licenses, min_clarity_score) ==
  IF "detected_license_expression" \notin DOMAIN resource
       \/ resource["detected_license_expression"] = ""
  THEN <<>>
  ELSE
    LET license_key == resource["detected_license_expression"]
        path == Get(resource, "path", "")
        prohibited ==
          IF IsProhibited(license_key, prohibited_licenses)
          THEN << [type |-> "prohibited_license", license |-> license_key,
                   file_path |-> path,
                   message |-> <<"Prohibited license", license_key, "found in", path>>] >>
          ELSE <<>>
        disallowed ==
          IF allowed_licenses # <<>> /\ ~InList(license_key, allowed_licenses)
          THEN << [type |-> "disallowed_license", license |-> license_key,
                   file_path |-> path,
                   message |-> <<"License", license_key,
                                 "not in allowed list found in", path>>] >>
          ELSE <<>>
        clarity ==
          IF "license_detections" \in DOMAIN resource
               /\ resource["license_detections"] # <<>>
          THEN Flatten([i \in 1..Len(resource["license_detections"]) |->
                         DetectionViolations(resource["license_detections"][i],
                                             license_key, path, min_clarity_score)])
          ELSE <<>>
    IN prohibited \o disallowed \o clarity

\* len(violations) == 0
Passed_UnlessProhibited(violations) ==
  \A i \in 1..Len(violations) : violations[i]["type"] \notin {"prohibited_license",
                                                             "high_severity_vulnerability"}

Passed(violations) == Len(violations) = 0

check_license_policy(resources, pol) ==
  IF Falsy(pol) \/ "license" \notin DOMAIN pol
  THEN <<TRUE, <<>>>>
  ELSE
    LET license_policy == pol["license"]
        allowed_licenses == Get(license_policy, "allowed", <<>>)
        prohibited_licenses == Get(license_policy, "prohibited", <<>>)
        min_clarity_score == Get(license_policy, "minimum_clarity_score", 0)
        violations ==
          Flatten([i \in 1..Len(resources["files"]) |->
                    FileViolations(resources["files"][i], allowed_licenses,
                                   prohibited_licenses, min_clarity_score)])
    IN <<Passed(violations), violations>>

-----------------------------------------------------------------------------
(* check_vulnerability_policy *)

\* the severity_levels table
severity_levels ==
  [none |-> 0, low |-> 1, medium |-> 2, high |-> 3, critical |-> 4]

VulnPurl(vuln) == Get(Get(vuln, "package", <<>>), "purl", "")

\* severity_level > max_severity_level
ExceedsMaximum_AtLeast(severity_level, max_severity_level) ==
  severity_level >= max_severity_level

ExceedsMaximum(severity_level, max_severity_level) ==
  severity_level > max_severity_level

\* the violations one vulnerability contributes (one iteration of the loop)
VulnViolations(vuln, max_severity, max_severity_level, fail_on_unpatchable) ==
  LET severity == Lower(Get(vuln, "severity", ""))
      severity_level == Get(severity_levels, severity, 0)
      vid == Get(vuln, "vulnerability_id", "")
      high ==
        IF ExceedsMaximum(severity_level, max_severity_level)
        THEN << [type |-> "high_severity_vulnerability", vulnerability_id |-> vid,
                 severity |-> severity, package |-> VulnPurl(vuln),
                 message |-> <<"Vulnerability", vid, "has severity", severity,
                               "which exceeds maximum allowed", max_severity>>] >>
        ELSE <<>>
      unpatchable ==
        IF fail_on_unpatchable /\ ~Get(vuln, "is_patchable", TRUE)
        THEN << [type |-> "unpatchable_vulnerability", vulnerability_id |-> vid,
                 severity |-> severity, package |-> VulnPurl(vuln),
                 message |-> <<"Unpatchable vulnerability", vid, "found in",
                               VulnPurl(vuln)>>] >>
        ELSE <<>>
  IN high \o unpatchable

check_vulnerability_policy(vulnerabilities, pol) ==
  IF Falsy(pol) \/ "vulnerabilities" \notin DOMAIN pol
  THEN <<TRUE, <<>>>>
  ELSE
    LET vuln_policy == pol["vulnerabilities"]
        max_severity == Lower(Get(vuln_policy, "maximum_severity", "critical"))
        fail_on_unpatchable == Get(vuln_policy, "fail_on_unpatchable", FALSE)
        max_severity_level == Get(severity_levels, max_severity, 4)
        violations ==
          Flatten([i \in 1..Len(vulnerabilities) |->
                    VulnViolations(vulnerabilities[i], max_severity,
                                   max_severity_level, fail_on_unpatchable)])
    IN <<Passed(violations), violations>>

-----------------------------------------------------------------------------
(* generate_summary *)

\* vuln.get('severity', 'unknown').lower()
SeverityBucket_NoLower(vuln) == Get(vuln, "severity", "unknown")

SeverityBucket(vuln) == Lower(Get(vuln, "severity", "unknown"))

\* by_severity after the loop over vulnerabilities[1..n]
RECURSIVE BySeverity(_, _)
BySeverity(vulnerabilities, n) ==
  IF n = 0 THEN <<>>
  ELSE
    LET counts == BySeverity(vulnerabilities, n - 1)
        severity == SeverityBucket(vulnerabilities[n])
        before == IF severity \in DOMAIN counts THEN counts[severity] ELSE 0
    IN [k \in DOMAIN counts \cup {severity} |->
          IF k = severity THEN before + 1 ELSE counts[k]]

generate_summary(resources, vulnerabilities, license_violations, vuln_violations) ==
  [resources |->
     [packages     |-> Len(resources["packages"]),
      dependencies |-> Len(resources["dependencies"]),
      files        |-> Len(resources["files"])],
   vulnerabilities |->
     [total       |-> Len(vulnerabilities),
      by_severity |-> BySeverity(vulnerabilities, Len(vulnerabilities))],
   policy_violations |->
     [license         |-> license_violations,
      vulnerabilities |-> vuln_violations]]

-----------------------------------------------------------------------------
(* Files.  A file is [state, doc, writes]: state "ok" (readable, parses),      *)
(* "malformed" (readable, does not parse) or "unreadable" (open fails); doc   *)
(* the parsed document; writes the number of times it was opened for writing. *)

File(state, doc) == [state |-> state, doc |-> doc, writes |-> 0]

\* open(path, 'w') followed by json.dump(doc)
Written(file, doc) == [state |-> "ok", doc |-> doc, writes |-> file.writes + 1]

-----------------------------------------------------------------------------
(* enhance_spdx_sbom *)

SecurityAnnotation(vuln) ==
  [annotationType |-> "SECURITY",
   annotator      |-> "Tool: ScanCode.io",
   comment        |-> <<"Vulnerability ID:", Get(vuln, "vulnerability_id", ""),
                        "Severity:", Get(vuln, "severity", "")>>]

\* package.get('externalRefs', [{}])[0] raises IndexError on an empty list
FirstRefRaises(package) == Get(package, "externalRefs", << <<>> >>) = <<>>

PackagePurl(package) ==
  Get(Get(package, "externalRefs", << <<>> >>)[1], "referenceLocator", "")

\* [v for v in vulnerabilities if v.get('package', {}).get('purl', '') == purl]
VulnsFor(vulnerabilities, purl) ==
  SelectSeq(vulnerabilities, LAMBDA v : VulnPurl(v) = purl)

\* one iteration of the loop over spdx_data['packages']
EnhancePackage_Dedup(package, vulnerabilities) ==
  LET package_vulns == VulnsFor(vulnerabilities, PackagePurl(package))
      fresh == SelectSeq(package_vulns,
                         LAMBDA v : ~InList(SecurityAnnotation(v),
                                            Get(package, "annotations", <<>>)))
  IN
  IF fresh = <<>> THEN package
  ELSE [k \in DOMAIN package \cup {"annotations"} |->
          IF k = "annotations"
          THEN Get(package, "annotations", <<>>)
                 \o [i \in 1..Len(fresh) |-> SecurityAnnotation(fresh[i])]
          ELSE package[k]]

EnhancePackage(package, vulnerabilities) ==
  LET package_vulns == VulnsFor(vulnerabilities, PackagePurl(package)) IN
  IF package_vulns = <<>> THEN package
  ELSE [k \in DOMAIN package \cup {"annotations"} |->
          IF k = "annotations"
          THEN Get(package, "annotations", <<>>)
                 \o [i \in 1..Len(package_vulns) |-> SecurityAnnotation(package_vulns[i])]
          ELSE package[k]]

\* the body of the try block, given that the file was read: the document to
\* write, or the exception
EnhanceSpdxData(spdx_data, vulnerabilities) ==
  IF "packages" \notin DOMAIN spdx_data
  THEN [raised |-> FALSE, doc |-> spdx_data]
  ELSE IF \E i \in 1..Len(spdx_data["packages"]) : FirstRefRaises(spdx_data["packages"][i])
  THEN [raised |-> TRUE, doc |-> spdx_data]
  ELSE [raised |-> FALSE,
        doc |-> [spdx_data EXCEPT !["packages"] =
                   [i \in 1..Len(@) |-> EnhancePackage(@[i], vulnerabilities)]]]

\* the whole function: the file afterwards, and whether an exception leaves it
\* (never: except Exception catches everything)
enhance_spdx_sbom_NoCatch(file, vulnerabilities) ==
  IF file.state # "ok"
  THEN [file |-> file, raised |-> TRUE]
  ELSE LET r == EnhanceSpdxData(file.doc, vulnerabilities) IN
       IF r.raised
       THEN [file |-> file, raised |-> TRUE]
       ELSE [file |-> Written(file, r.doc), raised |-> FALSE]

enhance_spdx_sbom(file, vulnerabilities) ==
  IF file.state # "ok"
  THEN [file |-> file, raised |-> FALSE]
  ELSE LET r == EnhanceSpdxData(file.doc, vulnerabilities) IN
       IF r.raised
       THEN [file |-> file, raised |-> FALSE]
       ELSE [file |-> Written(file, r.doc), raised |-> FALSE]

-----------------------------------------------------------------------------
(* enhance_cyclonedx_sbom *)

CdxVulnerability(vuln, purl) ==
  [id      |-> Get(vuln, "vulnerability_id", ""),
   ratings |-> << [severity |-> Upper(Get(vuln, "severity", "")),
                   method |-> "VulnerableCode"] >>,
   affects |-> << [ref |-> purl] >>]

\* cyclonedx_data after the loop over components[1..n]
RECURSIVE EnhanceComponents(_, _, _)
EnhanceComponents(cyclonedx_data, vulnerabilities, n) ==
  IF n = 0 THEN cyclonedx_data
  ELSE
    LET data == EnhanceComponents(cyclonedx_data, vulnerabilities, n - 1)
        purl == Get(data["components"][n], "purl", "")
        component_vulns == VulnsFor(vulnerabilities, purl)
    IN IF component_vulns = <<>> THEN data
       ELSE [k \in DOMAIN data \cup {"vulnerabilities"} |->
               IF k = "vulnerabilities"
               THEN Get(data, "vulnerabilities", <<>>)
                      \o [i \in 1..Len(component_vulns) |->
                            CdxVulnerability(component_vulns[i], purl)]
               ELSE data[k]]

enhance_cyclonedx_sbom(cyclonedx_path, file, vulnerabilities) ==
  LET is_json == EndsWith(cyclonedx_path, ".json") IN
  IF ~is_json THEN [file |-> file, raised |-> FALSE]
  ELSE IF file.state # "ok" THEN [file |-> file, raised |-> FALSE]
  ELSE IF "components" \in DOMAIN file.doc
  THEN [file |-> Written(file, EnhanceComponents(file.doc, vulnerabilities,
                                                  Len(file.doc["components"]))),
        raised |-> FALSE]
  ELSE [file |-> Written(file, file.doc), raised |-> FALSE]

-----------------------------------------------------------------------------
(* enhance_sbom *)

IsSpdxName(name) == EndsWith(name, ".spdx.json") \/ EndsWith(name, ".spdx")
IsCdxName(name) ==
  ~IsSpdxName(name) /\ (EndsWith(name, ".cdx.json") \/ EndsWith(name, ".cdx.xml"))

\* the values the loop over glob("*") can leave in spdx_path and cyclonedx_path:
\* the last match in the directory's listing order, which the code does not
\* fix; "" stands for None (no match)
PathChoices(matches) == IF matches = {} THEN {""} ELSE matches

SpdxPathChoices(dir) == PathChoices({n \in DOMAIN dir : IsSpdxName(n)})
CdxPathChoices(dir) == PathChoices({n \in DOMAIN dir : IsCdxName(n)})

formats_to_enhance_DefaultBoth(sbom_format) ==
  IF Lower(sbom_format) \in {"spdx", "cyclonedx"} THEN <<Lower(sbom_format)>>
  ELSE <<"spdx", "cyclonedx">>

formats_to_enhance(sbom_format) ==
  IF Lower(sbom_format) = "both" THEN <<"spdx", "cyclonedx">>
  ELSE IF Lower(sbom_format) \in {"spdx", "cyclonedx"} THEN <<Lower(sbom_format)>>
  ELSE <<>>

\* the directory after enhance_sbom, for the paths the listing loop chose
enhance_sbom(scan, dir, sbom_format, spdx_path, cyclonedx_path) ==
  IF Lower(sbom_format) = "false" THEN [dir |-> dir, raised |-> FALSE]
  ELSE
    LET vulnerabilities == extract_vulnerabilities(scan)
        formats == formats_to_enhance(sbom_format)
        spdx == IF InList("spdx", formats) /\ spdx_path # ""
                THEN enhance_spdx_sbom(dir[spdx_path], vulnerabilities)
                ELSE [raised |-> FALSE]
        cdx  == IF InList("cyclonedx", formats) /\ cyclonedx_path # "" /\ ~spdx.raised
                THEN enhance_cyclonedx_sbom(cyclonedx_path, dir[cyclonedx_path],
                                            vulnerabilities)
                ELSE [raised |-> FALSE]
    IN [dir |-> [n \in DOMAIN dir |->
                   IF n = spdx_path /\ "file" \in DOMAIN spdx THEN spdx.file
                   ELSE IF n = cyclonedx_path /\ "file" \in DOMAIN cdx THEN cdx.file
                   ELSE dir[n]],
        raised |-> spdx.raised \/ cdx.raised]

-----------------------------------------------------------------------------
(* load_scan_results, load_policy *)

\* the document, or sys.exit(1)
load_scan_results(file) ==
  IF file.state = "ok"
  THEN [exited |-> FALSE, value |-> file.doc]
  ELSE [exited |-> TRUE, value |-> <<>>]

\* file_path "" stands for no path (None or the empty string, both falsy);
\* file.state "absent" for a path at which nothing exists
load_policy_NoExcept(file_path, file) ==
  IF file_path = "" \/ file.state = "absent" THEN None
  ELSE file.doc

load_policy(file_path, file) ==
  IF file_path = "" \/ file.state = "absent" THEN None
  ELSE IF file.state = "ok" THEN file.doc
  ELSE None

-----------------------------------------------------------------------------
(* main *)

Unset == <<>>

IsResultsName(f) == StartsWith(f, "results-") /\ EndsWith(f, ".json")

\* the status main() exits with once the summary is written
ExitStatus_IgnoresFlag(fail_on_findings, passed) ==
  IF ~passed THEN 1 ELSE 0

ExitStatus(fail_on_findings, passed) ==
  IF Lower(fail_on_findings) = "true" /\ ~passed THEN 1 ELSE 0

SummaryName == "scan-summary.json"

\* open(summary_path, 'w'); json.dump(summary)
WriteSummaryFile(dir, doc) ==
  [n \in DOMAIN dir \cup {SummaryName} |->
     IF n = SummaryName
     THEN Written(IF n \in DOMAIN dir THEN dir[n] ELSE File("ok", <<>>), doc)
     ELSE dir[n]]

FindResultsFile ==
  /\ pc = "find"
  /\ LET results_files == {f \in DOMAIN fs : IsResultsName(f)} IN
     IF results_files = {}
     THEN /\ exit_code' = 1
          /\ pc' = "done"
          /\ UNCHANGED results_file
     ELSE /\ results_file' = SortedLast(results_files)
          /\ pc' = "load"
          /\ UNCHANGED exit_code
  /\ UNCHANGED <<args, fs, policy_file, scan_results, policy, license_result,
                 vuln_result, summary, log, policy_passed, fs0, runs>>

LoadScanResults ==
  /\ pc = "load"
  /\ LET r == load_scan_results(fs[results_file]) IN
     IF r.exited
     THEN /\ exit_code' = 1
          /\ pc' = "done"
          /\ UNCHANGED scan_results
     ELSE /\ scan_results' = r.value
          /\ pc' = "policy"
          /\ UNCHANGED exit_code
  /\ UNCHANGED <<args, fs, policy_file, results_file, policy, license_result,
                 vuln_result, summary, log, policy_passed, fs0, runs>>

LoadPolicy ==
  /\ pc = "policy"
  /\ policy' = IF args.policy # "" THEN load_policy(args.policy, policy_file) ELSE None
  /\ pc' = "check"
  /\ UNCHANGED <<args, fs, policy_file, results_file, scan_results, license_result,
                 vuln_result, summary, exit_code, log, policy_passed, fs0, runs>>

CheckPolicies ==
  /\ pc = "check"
  /\ license_result' = check_license_policy(extract_resources(scan_results), policy)
  /\ vuln_result' =
       check_vulnerability_policy(extract_vulnerabilities(scan_results), policy)
  /\ log' = Append(log, "check")
  /\ pc' = "sbom"
  /\ UNCHANGED <<args, fs, policy_file, results_file, scan_results, policy, summary,
                 exit_code, policy_passed, fs0, runs>>

\* an exception that leaves enhance_sbom ends main() with a traceback, status 1
EnhanceSboms ==
  /\ pc = "sbom"
  /\ IF Lower(args.generate_sbom) = "true"
     THEN \E spdx_path \in SpdxPathChoices(fs),
             cyclonedx_path \in CdxPathChoices(fs) :
            LET r == enhance_sbom(scan_results, fs, args.sbom_format,
                                  spdx_path, cyclonedx_path) IN
            /\ fs' = r.dir
            /\ log' = Append(log, "enhance")
            /\ IF r.raised
               THEN pc' = "done" /\ exit_code' = 1
               ELSE pc' = "summary" /\ UNCHANGED exit_code
     ELSE /\ pc' = "summary"
          /\ UNCHANGED <<fs, log, exit_code>>
  /\ UNCHANGED <<args, policy_file, results_file, scan_results, policy,
                 license_result, vuln_result, summary, policy_passed, fs0, runs>>

WriteSummary ==
  /\ pc = "summary"
  /\ summary' = generate_summary(extract_resources(scan_results),
                                 extract_vulnerabilities(scan_results),
                                 license_result[2], vuln_result[2])
  /\ fs' = WriteSummaryFile(fs, summary')
  /\ log' = Append(log, "summary")
  /\ pc' = "exit"
  /\ UNCHANGED <<args, policy_file, results_file, scan_results, policy,
                 license_result, vuln_result, exit_code, policy_passed, fs0, runs>>

Exit ==
  /\ pc = "exit"
  /\ policy_passed' = (license_result[1] /\ vuln_result[1])
  /\ exit_code' = ExitStatus(args.fail_on_findings, policy_passed')
  /\ log' = Append(log, "exit")
  /\ pc' = "done"
  /\ UNCHANGED <<args, fs, policy_file, results_file, scan_results, policy,
                 license_result, vuln_result, summary, fs0, runs>>

-----------------------------------------------------------------------------
(* Inputs *)

\* every way of leaving out some of the optional keys of the dicts of a set
WithOptional(dicts, optional) ==
  {Restrict(d, DOMAIN d \ K) : d \in dicts, K \in SUBSET optional}

\* a scan whose i-th vulnerability is shapes[i] with its own id
ScanOfVulns(shapes) ==
  [extra_data |->
     [vulnerabilities |->
        [i \in 1..Len(shapes) |->
           [k \in DOMAIN shapes[i] \cup {"vulnerability_id"} |->
              IF k = "vulnerability_id" THEN "CVE-" \o ToString(i) ELSE shapes[i][k]]]]]

PathOf(i) == "src/f" \o ToString(i) \o ".py"

\* a scan whose i-th file record is shapes[i] with its own path
ScanOfFiles(shapes) ==
  [files |-> [i \in 1..Len(shapes) |->
                [k \in DOMAIN shapes[i] \cup {"path"} |->
                   IF k = "path" THEN PathOf(i) ELSE shapes[i][k]]]]

Severities == {"none", "low", "medium", "High", "CRITICAL", "bogus"}

VulnInputs ==
  WithOptional([severity : Severities,
                is_patchable : {FALSE}, package : {[purl |-> "pkg:a"]}],
               {"severity", "is_patchable"})

VulnPolicyInputs ==
  {None, <<>>, [license |-> <<>>]}
    \cup {[vulnerabilities |-> p] :
            p \in WithOptional([maximum_severity : {"none", "low", "Medium", "HIGH",
                                                    "critical", "bogus"},
                                fail_on_unpatchable : {TRUE}],
                               {"maximum_severity", "fail_on_unpatchable"})}

DetectionInputs ==
  { <<>>,
    << [matches |-> << [score |-> 50], [score |-> 100] >>],
       [matches |-> << [score |-> 60] >>] >>,
    << <<>>, [matches |-> << <<>> >>] >> }

FileInputs ==
  WithOptional([detected_license_expression : {"", "MIT", "GPL-3.0"},
                license_detections : DetectionInputs],
               {"license_detections"})
    \cup {<<>>}

LicensePolicyInputs ==
  {None, <<>>, [vulnerabilities |-> <<>>]}
    \cup {[license |-> p] :
            p \in WithOptional([allowed : {<<>>, <<"MIT">>},
                                prohibited : {<<"GPL-3.0">>, <<"", "GPL-3.0">>},
                                minimum_clarity_score : {75}],
                               {"allowed", "prohibited", "minimum_clarity_score"})}

-----------------------------------------------------------------------------
(* main() from the point where the scan and the policy are loaded, on every *)
(* scan and policy of the inputs above                                      *)

InitPolicy ==
  /\ pc = "check"
  /\ \/ /\ scan_results \in {ScanOfVulns(vs) : vs \in SeqsUpTo(VulnInputs, MaxVulns)}
        /\ policy \in VulnPolicyInputs
     \/ /\ scan_results \in {ScanOfFiles(fl) : fl \in SeqsUpTo(FileInputs, MaxFiles)}
        /\ policy \in LicensePolicyInputs
  /\ args = [policy |-> "policy.yml", generate_sbom |-> "false", sbom_format |-> "both",
             fail_on_findings |-> "true"]
  /\ policy_file = File("ok", policy)
  /\ results_file = "results-1.json"
  /\ fs = [n \in {results_file} |-> File("ok", scan_results)]
  /\ fs0 = fs
  /\ license_result = Unset /\ vuln_result = Unset /\ summary = Unset
  /\ exit_code = -1 /\ log = <<>> /\ policy_passed = FALSE /\ runs = 0

NextPolicy == CheckPolicies \/ EnhanceSboms \/ WriteSummary \/ Exit

SpecPolicy == InitPolicy /\ [][NextPolicy]_vars

-----------------------------------------------------------------------------
(* enhance_spdx_sbom run again and again on one SPDX file with the same       *)
(* vulnerabilities (the action's SBOM step, once per run of the workflow)     *)

SpdxName == "scan.spdx.json"

RefInputs ==
  { <<>>,
    << [referenceType |-> "purl"] >>,
    << [referenceLocator |-> "pkg:a"] >>,
    << [referenceLocator |-> "pkg:b"] >>,
    << [referenceLocator |-> "pkg:b"], [referenceLocator |-> "pkg:a"] >> }

PackageInputs ==
  WithOptional([name : {"lib"}, externalRefs : RefInputs,
                annotations : {<< [annotationType |-> "REVIEW",
                                   annotator |-> "Person: x",
                                   comment |-> <<"ok">>] >>}],
               {"externalRefs", "annotations"})

SpdxDocInputs ==
  {[spdxVersion |-> "SPDX-2.3"]}
    \cup {[spdxVersion |-> "SPDX-2.3", packages |-> ps] :
            ps \in SeqsUpTo(PackageInputs, MaxPackages)}

SpdxFileInputs ==
  {File("malformed", <<>>), File("unreadable", <<>>)}
    \cup {File("ok", d) : d \in SpdxDocInputs}

SpdxVulnInputs ==
  { [severity |-> "high", package |-> [purl |-> "pkg:a"]],
    [severity |-> "low", package |-> [purl |-> "pkg:a"]],
    [severity |-> "high"] }

InitSpdx ==
  /\ pc = "enhance_spdx"
  /\ fs \in {[n \in {SpdxName} |-> f] : f \in SpdxFileInputs}
  /\ fs0 = fs
  /\ scan_results \in {ScanOfVulns(vs) : vs \in SeqsUpTo(SpdxVulnInputs, MaxVulns)}
  /\ runs = 0
  /\ args = Unset /\ policy_file = Unset /\ results_file = "" /\ policy = None
  /\ license_result = Unset /\ vuln_result = Unset /\ summary = Unset
  /\ exit_code = -1 /\ log = <<>> /\ policy_passed = FALSE

EnhanceSpdxSbom ==
  /\ pc = "enhance_spdx"
  /\ runs < MaxRuns
  /\ fs' = [fs EXCEPT ![SpdxName] =
              enhance_spdx_sbom(@, extract_vulnerabilities(scan_results)).file]
  /\ runs' = runs + 1
  /\ UNCHANGED <<pc, args, policy_file, results_file, scan_results, policy,
                 license_result, vuln_result, summary, exit_code, log,
                 policy_passed, fs0>>

SpecSpdx == InitSpdx /\ [][EnhanceSpdxSbom]_vars

-----------------------------------------------------------------------------
(* Whole runs of main() *)

GplFile == [path |-> "a.py", detected_license_expression |-> "GPL-3.0"]
UnclearFile ==
  [path |-> "b.py", detected_license_expression |-> "MIT",
   license_detections |-> << [matches |-> << [score |-> 50] >>] >>]
CriticalVuln ==
  [vulnerability_id |-> "CVE-1", severity |-> "Critical",
   package |-> [purl |-> "pkg:a"], is_patchable |-> FALSE]
LowVuln ==
  [vulnerability_id |-> "CVE-2", severity |-> "low",
   package |-> [purl |-> "pkg:b"], is_patchable |-> TRUE]

Scan(files, vulns) ==
  [packages |-> << [purl |-> "pkg:a"], [purl |-> "pkg:b"] >>,
   dependencies |-> << [purl |-> "pkg:c"] >>,
   files |-> files,
   extra_data |-> [vulnerabilities |-> vulns]]

ScanInputs ==
  { <<>>,
    Scan(<<GplFile>>, <<>>),
    Scan(<<>>, <<LowVuln>>),
    Scan(<<UnclearFile, [path |-> "c.py"]>>, <<CriticalVuln>>),
    Scan(<<GplFile, UnclearFile>>, <<LowVuln, CriticalVuln>>) }

PolicyInputs ==
  { [license |-> [prohibited |-> <<"GPL-3.0">>]],
    [vulnerabilities |-> [maximum_severity |-> "high"]],
    [license |-> [allowed |-> <<"MIT">>, minimum_clarity_score |-> 75],
     vulnerabilities |-> [maximum_severity |-> "Low", fail_on_unpatchable |-> TRUE]] }

\* what can be at the policy path: nothing, a file that cannot be opened, one that
\* is no YAML, an empty document (safe_load gives None) or a policy
PolicyFileInputs ==
  {File("absent", <<>>), File("unreadable", <<>>), File("malformed", <<>>),
   File("ok", None)}
    \cup {File("ok", p) : p \in PolicyInputs}

\* the results files of the directory, beside a name that is no results file
ResultsInputs ==
  {[n \in {"results-1.txt"} |-> File("ok", <<>>)]}
    \cup {[n \in {"results-1.json"} |-> File("ok", scan)] : scan \in ScanInputs}
    \cup {[n \in {"results-1.json"} |-> File("malformed", <<>>)],
          [n \in {"results-1.json"} |-> File("unreadable", <<>>)],
          [n \in {"results-1.json", "results-2.json"} |->
             IF n = "results-1.json" THEN File("ok", Scan(<<GplFile>>, <<>>))
             ELSE File("malformed", <<>>)],
          [n \in {"results-9.json", "results-10.json", "old-results.json"} |->
             IF n = "results-9.json" THEN File("ok", Scan(<<GplFile>>, <<>>))
             ELSE File("malformed", <<>>)]}

SpdxDoc(refs) ==
  [spdxVersion |-> "SPDX-2.3",
   packages |-> << [name |-> "a", externalRefs |-> refs], [name |-> "x"] >>]
CdxDoc == [bomFormat |-> "CycloneDX", components |-> << [purl |-> "pkg:a"], [name |-> "x"] >>]

\* the SBOM files of the directory
SbomInputs ==
  { <<>>,
    [n \in {"scan.spdx.json", "scan.cdx.json"} |->
       IF n = "scan.spdx.json" THEN File("ok", SpdxDoc(<<[referenceLocator |-> "pkg:a"]>>))
       ELSE File("ok", CdxDoc)],
    [n \in {"scan.spdx", "scan.cdx.xml"} |->
       IF n = "scan.spdx" THEN File("malformed", <<>>) ELSE File("ok", <<>>)],
    [n \in {"scan.spdx.json", "scan.cdx.json"} |->
       IF n = "scan.spdx.json" THEN File("ok", SpdxDoc(<<>>))
       ELSE File("unreadable", <<>>)],
    [n \in {"a.spdx.json", "b.spdx", "a.cdx.json", "b.cdx.xml"} |->
       IF n \in {"a.spdx.json", "b.spdx"}
       THEN File("ok", SpdxDoc(<<[referenceLocator |-> "pkg:a"]>>))
       ELSE File("ok", CdxDoc)] }

ArgsInputs ==
  [policy : {"", "policy.yml"},
   generate_sbom : {"true", "TRUE", "false"},
   sbom_format : {"both", "spdx", "CycloneDX", "false", "xml"},
   fail_on_findings : {"true", "TRUE", "false"}]

Init ==
  /\ pc = "find"
  /\ args \in ArgsInputs
  /\ policy_file \in PolicyFileInputs
  /\ args.policy = "" => policy_file \in {File("absent", <<>>),
                                          File("ok", [license |-> [prohibited |-> <<"GPL-3.0">>]])}
  /\ \E results \in ResultsInputs, sboms \in SbomInputs : fs = results @@ sboms
  /\ fs0 = fs
  /\ results_file = "" /\ scan_results = Unset /\ policy = None
  /\ license_result = Unset /\ vuln_result = Unset /\ summary = Unset
  /\ exit_code = -1 /\ log = <<>> /\ policy_passed = FALSE /\ runs = 0

Next ==
  \/ FindResultsFile
  \/ LoadScanResults
  \/ LoadPolicy
  \/ CheckPolicies
  \/ EnhanceSboms
  \/ WriteSummary
  \/ Exit

Spec == Init /\ [][Next]_vars

-----------------------------------------------------------------------------
(* Properties of the policy checks and of the summary (SpecPolicy) *)

InputVulns == scan_results["extra_data"]["vulnerabilities"]
HasVulns == "extra_data" \in DOMAIN scan_results
InputFiles == scan_results["files"]
HasFiles == "files" \in DOMAIN scan_results
HasSection(name) == policy # None /\ name \in DOMAIN policy
Checked == pc # "check"

\* the severity order of the claim: none(0) < low(1) < medium(2) < high(3) <
\* critical(4), case-insensitively, with `other` for an unrecognized name
C3_Level(name, other) ==
  LET l == Lower(name) IN
  CASE l = "none" -> 0 [] l = "low" -> 1 [] l = "medium" -> 2
    [] l = "high" -> 3 [] l = "critical" -> 4 [] OTHER -> other

C3_VulnLevel(v) == IF "severity" \in DOMAIN v THEN C3_Level(v["severity"], 0) ELSE 0

C3_MaxLevel(p) ==
  IF "maximum_severity" \in DOMAIN p THEN C3_Level(p["maximum_severity"], 4) ELSE 4

C3_HighFor(v) ==
  Cardinality({j \in 1..Len(vuln_result[2]) :
                 /\ vuln_result[2][j]["type"] = "high_severity_vulnerability"
                 /\ vuln_result[2][j]["vulnerability_id"] = v["vulnerability_id"]})

\* C3: with a policy that has a vulnerabilities section, a vulnerability V gets a
\* high_severity_vulnerability violation (exactly one) if and only if the level
\* of V.severity is above the level of maximum_severity, levels taken
\* case-insensitively from none(0) .. critical(4), an unrecognized or missing
\* severity counting 0 and an unrecognized or missing maximum_severity 4.
C3_HighSeverityIffAboveMaximum ==
  (Checked /\ HasVulns /\ HasSection("vulnerabilities")) =>
    \A i \in 1..Len(InputVulns) :
      C3_HighFor(InputVulns[i]) =
        IF C3_VulnLevel(InputVulns[i]) > C3_MaxLevel(policy["vulnerabilities"])
        THEN 1 ELSE 0

\* a run with maximum_severity "Medium" in which one vulnerability is flagged
\* and another (of unrecognized or missing severity) is not
C3_Witness ==
  /\ pc = "done" /\ HasVulns /\ HasSection("vulnerabilities")
  /\ Get(policy["vulnerabilities"], "maximum_severity", "") = "Medium"
  /\ \E i, j \in 1..Len(InputVulns) :
       /\ C3_HighFor(InputVulns[i]) = 1
       /\ Get(InputVulns[i], "severity", "") = "High"
       /\ C3_HighFor(InputVulns[j]) = 0
       /\ Get(InputVulns[j], "severity", "") \in {"", "bogus"}

C4_ProhibitedFor(f) ==
  Cardinality({j \in 1..Len(license_result[2]) :
                 /\ license_result[2][j]["type"] = "prohibited_license"
                 /\ license_result[2][j]["file_path"] = f["path"]})

C4_InProhibited(f) ==
  /\ "detected_license_expression" \in DOMAIN f
  /\ InList(f["detected_license_expression"], Get(policy["license"], "prohibited", <<>>))

\* C4 as stated: every file record whose detected_license_expression is a member
\* of the prohibited list gets exactly one prohibited_license violation.
C4_AsStated ==
  (Checked /\ HasFiles /\ HasSection("license")) =>
    \A i \in 1..Len(InputFiles) :
      C4_InProhibited(InputFiles[i]) => C4_ProhibitedFor(InputFiles[i]) = 1

\* C4, amended: every file record whose detected_license_expression is non-empty
\* and a member of the prohibited list gets exactly one prohibited_license
\* violation, whatever its license_detections and scores, the allowed list and
\* minimum_clarity_score are.
C4_ExactlyOneProhibitedWhenNonEmpty ==
  (Checked /\ HasFiles /\ HasSection("license")) =>
    \A i \in 1..Len(InputFiles) :
      (C4_InProhibited(InputFiles[i]) /\ InputFiles[i]["detected_license_expression"] # "")
        => C4_ProhibitedFor(InputFiles[i]) = 1

\* a prohibited file that also draws a disallowed_license and low_clarity_score
\* violations still has exactly one prohibited_license violation
C4_Witness ==
  /\ pc = "done" /\ HasFiles /\ HasSection("license")
  /\ \E i \in 1..Len(InputFiles) :
       /\ C4_InProhibited(InputFiles[i])
       /\ InputFiles[i]["detected_license_expression"] = "GPL-3.0"
       /\ C4_ProhibitedFor(InputFiles[i]) = 1
       /\ Cardinality({j \in 1..Len(license_result[2]) :
                         license_result[2][j]["file_path"] = InputFiles[i]["path"]}) >= 4

KnownSeverities == {"none", "low", "medium", "high", "critical"}

RECURSIVE SumOver(_, _)
SumOver(f, keys) ==
  IF keys = {} THEN 0
  ELSE LET k == CHOOSE x \in keys : TRUE IN f[k] + SumOver(f, keys \ {k})

Summarised == pc \in {"exit", "done"}
C8_BySeverity == summary["vulnerabilities"]["by_severity"]
C8_Vulns == IF HasVulns THEN InputVulns ELSE <<>>

C8_TotalsAgree ==
  /\ summary["vulnerabilities"]["total"] = Len(C8_Vulns)
  /\ SumOver(C8_BySeverity, DOMAIN C8_BySeverity) = Len(C8_Vulns)

-----------------------------------------------------------------------------
(* Properties of enhance_spdx_sbom (SpecSpdx) *)

SpdxPackages(dir) == Get(dir[SpdxName].doc, "packages", <<>>)
SpdxAnnotations(dir, i) == Get(SpdxPackages(dir)[i], "annotations", <<>>)
SpdxVulns == scan_results["extra_data"]["vulnerabilities"]

\* the referenceLocator of the package's first external reference ("" without)
FirstLocator(package) ==
  IF "externalRefs" \in DOMAIN package /\ package["externalRefs"] # <<>>
  THEN Get(package["externalRefs"][1], "referenceLocator", "")
  ELSE ""

MatchesPackage(v, package) == Get(Get(v, "package", <<>>), "purl", "") = FirstLocator(package)

\* the number of vulnerabilities matched to a package
MatchCount(package) ==
  Cardinality({j \in 1..Len(SpdxVulns) : MatchesPackage(SpdxVulns[j], package)})

\* the SECURITY annotations of package i that name vulnerability v
SecurityCopies(dir, i, v) ==
  Cardinality({j \in 1..Len(SpdxAnnotations(dir, i)) :
                 /\ SpdxAnnotations(dir, i)[j]["annotationType"] = "SECURITY"
                 /\ SpdxAnnotations(dir, i)[j]["comment"][2] = v["vulnerability_id"]})

\* C6 as stated: for every readable SPDX JSON document, one run appends to each
\* package exactly one SECURITY annotation per vulnerability whose purl equals
\* the locator of the package's first external reference, nothing else, and
\* rewrites the file -- also when a package has no or an empty externalRefs.
C6_AsStated ==
  (runs = 1 /\ fs0[SpdxName].state = "ok") =>
    /\ fs[SpdxName].writes = 1
    /\ Len(SpdxPackages(fs)) = Len(SpdxPackages(fs0))
    /\ \A i \in 1..Len(SpdxPackages(fs0)) :
         /\ \A j \in 1..Len(SpdxVulns) :
              SecurityCopies(fs, i, SpdxVulns[j]) =
                IF MatchesPackage(SpdxVulns[j], SpdxPackages(fs0)[i]) THEN 1 ELSE 0
         /\ Len(SpdxAnnotations(fs, i)) =
              Len(SpdxAnnotations(fs0, i))
                + MatchCount(SpdxPackages(fs0)[i])

\* C7: enhancement is not idempotent.  On a file that has been enhanced, every
\* further run with the same vulnerabilities rewrites it and appends the same
\* SECURITY annotations again: after n runs each package carries n copies of the
\* annotation of each vulnerability matched to it, after whatever it held before.
C7_RunsAppendAgain ==
  fs[SpdxName].writes >= 1 =>
    /\ fs[SpdxName].writes = runs
    /\ \A i \in 1..Len(SpdxPackages(fs0)) :
         /\ SubSeq(SpdxAnnotations(fs, i), 1, Len(SpdxAnnotations(fs0, i)))
              = SpdxAnnotations(fs0, i)
         /\ \A j \in 1..Len(SpdxVulns) :
              SecurityCopies(fs, i, SpdxVulns[j]) =
                IF MatchesPackage(SpdxVulns[j], SpdxPackages(fs0)[i]) THEN runs ELSE 0
         /\ Len(SpdxAnnotations(fs, i)) =
              Len(SpdxAnnotations(fs0, i))
                + runs * MatchCount(SpdxPackages(fs0)[i])

\* two runs have left two copies of each of the two annotations of a package
C7_Witness ==
  /\ runs = 2 /\ fs[SpdxName].writes = 2
  /\ Len(SpdxVulns) = 2
  /\ \E i \in 1..Len(SpdxPackages(fs0)) :
       /\ \A j \in 1..2 : SecurityCopies(fs, i, SpdxVulns[j]) = 2
       /\ Len(SpdxAnnotations(fs, i)) = 4 + Len(SpdxAnnotations(fs0, i))

-----------------------------------------------------------------------------
(* Properties of whole runs (Spec), and C5 on every scan and policy (SpecPolicy) *)

IsTrue(flag) == Lower(flag) = "true"

ResultsFound == \E n \in DOMAIN fs0 : IsResultsName(n)
ResultsLoaded == results_file # "" /\ fs0[results_file].state = "ok"
Finished == pc = "done"

\* C1: main() exits 1 exactly when (a) the directory holds no results-*.json
\* or the selected results file cannot be read or parsed, or (b)
\* --fail-on-findings is true (read as the flag is, in any letter case) and the
\* license check or the vulnerability check did not pass; every other run exits
\* 0, whatever violations were found.
C1_ExitCode ==
  Finished =>
    exit_code =
      IF ~ResultsFound \/ ~ResultsLoaded THEN 1
      ELSE IF IsTrue(args.fail_on_findings) /\ (~license_result[1] \/ ~vuln_result[1])
      THEN 1
      ELSE 0

\* a run that found violations of both kinds and still exits 0
C1_Witness ==
  /\ Finished /\ exit_code = 0 /\ ResultsLoaded
  /\ ~IsTrue(args.fail_on_findings)
  /\ license_result[2] # <<>> /\ vuln_result[2] # <<>>

PolicyAbsent ==
  args.policy = "" \/ policy_file.state \in {"absent", "unreadable", "malformed"}

\* C2: when no --policy is given, or nothing exists at the path, or the file
\* cannot be read or parsed, the loaded policy is None, both checks return
\* (true, []) on every scan, and the run exits 0 even with --fail-on-findings
\* true.
C2_AbsentPolicyPasses ==
  (PolicyAbsent /\ ResultsLoaded) =>
    /\ pc \notin {"find", "load", "policy"} => policy = None
    /\ pc \notin {"find", "load", "policy", "check"} =>
         license_result = <<TRUE, <<>>>> /\ vuln_result = <<TRUE, <<>>>>
    /\ Finished => exit_code = 0

\* a finished run with an unparseable policy file, --fail-on-findings true and a
\* scan that any of the policies would fault
C2_Witness ==
  /\ Finished /\ ResultsLoaded /\ exit_code = 0
  /\ args.policy # "" /\ policy_file.state = "malformed"
  /\ args.fail_on_findings = "true"
  /\ Len(Get(scan_results, "files", <<>>)) = 2
  /\ summary["policy_violations"] = [license |-> <<>>, vulnerabilities |-> <<>>]

\* C5: each check returns a pass flag that is true exactly when the violation
\* list it returns is empty, with or without a policy; so the two lists in the
\* summary are both empty exactly when policy_passed, which decides the exit
\* code, is true.
C5_PassedIffNoViolations ==
  /\ pc \notin {"find", "load", "policy", "check"} =>
       /\ license_result[1] <=> (license_result[2] = <<>>)
       /\ vuln_result[1] <=> (vuln_result[2] = <<>>)
  /\ (Finished /\ Len(log) > 0 /\ log[Len(log)] = "exit") =>
       policy_passed <=> /\ summary["policy_violations"]["license"] = <<>>
                         /\ summary["policy_violations"]["vulnerabilities"] = <<>>

\* a finished run that failed on low_clarity_score violations alone
C5_Witness ==
  /\ Finished /\ ~policy_passed /\ exit_code = 1
  /\ ~license_result[1] /\ vuln_result[1]
  /\ summary["policy_violations"]["license"] # <<>>
  /\ \A i \in 1..Len(license_result[2]) : license_result[2][i]["type"] = "low_clarity_score"

IsPrefix(a, b) == Len(a) <= Len(b) /\ SubSeq(b, 1, Len(a)) = a

C9_Steps ==
  IF IsTrue(args.generate_sbom)
  THEN <<"check", "enhance", "summary", "exit">>
  ELSE <<"check", "summary", "exit">>

\* what a run without SBOM enhancement writes and exits with
C9_Summary ==
  generate_summary(extract_resources(scan_results), extract_vulnerabilities(scan_results),
                   check_license_policy(extract_resources(scan_results), policy)[2],
                   check_vulnerability_policy(extract_vulnerabilities(scan_results),
                                              policy)[2])

C9_ExitCode ==
  IF IsTrue(args.fail_on_findings)
       /\ ~(check_license_policy(extract_resources(scan_results), policy)[1]
            /\ check_vulnerability_policy(extract_vulnerabilities(scan_results),
                                          policy)[1])
  THEN 1 ELSE 0

\* C9: once the results file has loaded, main() runs the policy checks, then SBOM
\* enhancement (when enabled), then writes scan-summary.json, then exits, in that
\* order; whatever happens inside SBOM enhancement (no SBOM file, a malformed
\* one, the XML format), the run ends with the summary written, and the summary
\* and the exit code are those of the run without enhancement.
C9_OrderAndSummaryDespiteSbomFailure ==
  ResultsLoaded =>
    /\ IsPrefix(log, C9_Steps)
    /\ Finished =>
         /\ log = C9_Steps
         /\ SummaryName \in DOMAIN fs
         /\ fs[SummaryName].writes = 1
         /\ fs[SummaryName].doc = C9_Summary
         /\ summary = C9_Summary
         /\ exit_code = C9_ExitCode

IsSbomName(n) == IsSpdxName(n) \/ IsCdxName(n)
Changed(n) == n \in DOMAIN fs0 /\ fs[n] # fs0[n]
Rewritten(n) == n \in DOMAIN fs0 /\ fs[n].writes > fs0[n].writes

\* a finished run whose SPDX file could not be enhanced (malformed, or a package
\* with an empty externalRefs) and whose CycloneDX file is XML or unreadable
C9_Witness ==
  /\ Finished /\ ResultsLoaded /\ IsTrue(args.generate_sbom)
  /\ Lower(args.sbom_format) = "both"
  /\ log = <<"check", "enhance", "summary", "exit">>
  /\ \E n \in DOMAIN fs0 : IsSpdxName(n)
  /\ \A n \in DOMAIN fs0 : IsSbomName(n) => ~Rewritten(n)
  /\ summary["policy_violations"]["license"] # <<>>
  /\ fs[SummaryName].doc = summary

\* C10: enhancement touches only files of the selected kind: format spdx leaves
\* every CycloneDX file alone, cyclonedx every SPDX file; "false", an
\* unrecognized format or --generate-sbom other than true leave every SBOM file
\* alone; a CycloneDX XML file is never touched; and a run touches at most one
\* SPDX file and at most one CycloneDX file.  (Flag values are read as the code
\* reads them, in any letter case.)
C10_OnlySelectedSbomsChange ==
  /\ \A n \in DOMAIN fs0 :
       /\ (Changed(n) \/ Rewritten(n)) => (IsSbomName(n) \/ n = SummaryName)
       /\ (IsCdxName(n) /\ Lower(args.sbom_format) = "spdx") => ~Changed(n) /\ ~Rewritten(n)
       /\ (IsSpdxName(n) /\ Lower(args.sbom_format) = "cyclonedx")
            => ~Changed(n) /\ ~Rewritten(n)
       /\ (IsSbomName(n) /\ (Lower(args.sbom_format) \notin {"spdx", "cyclonedx", "both"}
                             \/ ~IsTrue(args.generate_sbom)))
            => ~Changed(n) /\ ~Rewritten(n)
       /\ EndsWith(n, ".cdx.xml") => ~Changed(n) /\ ~Rewritten(n)
  /\ Cardinality({n \in DOMAIN fs0 : IsSpdxName(n) /\ (Changed(n) \/ Rewritten(n))}) <= 1
  /\ Cardinality({n \in DOMAIN fs0 : IsCdxName(n) /\ (Changed(n) \/ Rewritten(n))}) <= 1

\* a finished run with format spdx in a directory of two SPDX and two CycloneDX
\* files: one SPDX file rewritten, nothing else
C10_Witness ==
  /\ Finished /\ Lower(args.sbom_format) = "spdx" /\ IsTrue(args.generate_sbom)
  /\ Cardinality({n \in DOMAIN fs0 : IsSpdxName(n)}) = 2
  /\ Cardinality({n \in DOMAIN fs0 : IsCdxName(n) /\ fs0[n].state = "ok"}) = 2
  /\ Cardinality({n \in DOMAIN fs0 : Rewritten(n) /\ IsSpdxName(n)}) = 1

====
